---------------------------- MODULE Spec2Model ----------------------------
(***************************************************************************)
(* A model of vcluster: the syncer's name and metadata translation,        *)
(* reference extraction and secret reconciler, the API proxy's handler     *)
(* chain and service creation, and the installer.                          *)
(*                                                                         *)
(* Go strings are modelled as sequences of one-character strings, so that  *)
(* len(), slicing, concatenation and strings.Join are computed the way Go  *)
(* computes them.  A nil pointer or nil map is the value Nil.              *)
(***************************************************************************)
EXTENDS Integers, Sequences, FiniteSets, TLC

VARIABLES
    Suffix,       \* translate.Suffix, the per-instance identifier
    observed,     \* name translation: the virtual identities translated so far
    pod,          \* reference extraction: the pod handed to the extractors
    ingress,      \* reference extraction: the ingress handed to mapIngresses
    ret,          \* the last pure call and what it returned
    OwningStatefulSet,  \* translate.OwningStatefulSet: Nil or a pointer
    obj,          \* metadata: the runtime.Object handed to the translate package
    includeIngresses,   \* secret syncer: whether ingresses are synced
    vPods,        \* the pods of the virtual cluster
    vIngresses,   \* the ingresses of the virtual cluster
    vSecrets,     \* the secrets of the virtual cluster
    pSecrets,     \* the secrets of the target namespace of the host cluster
    last,         \* secret syncer: its last call, arguments and result
    request,      \* API proxy: the request being served
    stage,        \* API proxy: the element of the handler chain it stands at
    authorizer,   \* API proxy: the authorizer that decided on the request
    offered,      \* API proxy: the chain elements the request was offered to
    handledBy,    \* API proxy: the chain elements that handled the request
    lock,         \* service creation: the holder of the lock service-controller
    creates,      \* service creation: each request's progress through the filter
    physicalServices,   \* the services of the target namespace of the host
    virtualServices,    \* the services of the virtual cluster
    cmd,          \* installer: the flags of vcluster create
    hostNamespaces,     \* installer: the namespaces of the host cluster
    hostServices, \* installer: the services the installer left on the host
    run           \* installer: the last run of CreateCmd.Run

cfgVars == <<Suffix, OwningStatefulSet>>
syncVars == <<includeIngresses, vPods, vIngresses, vSecrets, pSecrets, last>>
chainVars == <<request, stage, authorizer, offered, handledBy>>
serviceVars == <<lock, creates, physicalServices, virtualServices>>
proxyVars == <<chainVars, serviceVars>>
cliVars == <<cmd, hostNamespaces, hostServices, run>>
vars == <<Suffix, observed, pod, ingress, ret, OwningStatefulSet, obj, syncVars,
          proxyVars, cliVars>>

\* A Go pointer is a sequence of length at most one: Nil, or Ptr(v).
Nil == <<>>
Ptr(v) == <<v>>
Deref(p) == p[1]

(***************************************************************************)
(* Bounds of the model.                                                    *)
(***************************************************************************)
MaxTail == 1        \* segments a generated DNS label has after its first
PadLen == 48        \* length of the prefix that makes a name long
MaxObserved == 2    \* identities translated in one run
MaxRefs == 2        \* reference sites of a generated pod
MaxTLS == 2         \* tls entries of a generated ingress
MaxPods == 2        \* pods of the virtual cluster
MaxIngresses == 1   \* ingresses of the virtual cluster
MaxResets == 2      \* applications of ResetObjectMetadata to one object
MaxCreates == 2     \* service-create requests sent to the proxy
MaxRuns == 2        \* runs of the installer against one host cluster

(***************************************************************************)
(* String constants.                                                       *)
(***************************************************************************)
Dash == <<"-">>
Slash == <<"/">>
StrX == <<"x">>
StrSuffix == <<"s", "u", "f", "f", "i", "x">>
StrTest == <<"t", "e", "s", "t">>
StrA == <<"a">>
StrB == <<"b">>
StrC == <<"c">>
StrHost == <<"h", "o", "s", "t">>

Repeat(c, n) == [i \in 1..n |-> c]

\* RFC 1123 labels: lower-case alphanumerics and '-', alphanumeric at both
\* ends.  The generated ones are "x" followed by segments "x" or "-x".
Tails == {<<"x">>, <<"-", "x">>}

RECURSIVE LabelsUpTo(_)
LabelsUpTo(n) ==
    IF n = 0 THEN {StrX}
    ELSE LET shorter == LabelsUpTo(n - 1)
         IN  shorter \cup {s \o t : s \in shorter, t \in Tails}

Labels == LabelsUpTo(MaxTail)

\* Object names: the labels, and one name behind a long prefix.
Names == Labels \cup {Repeat("a", PadLen) \o StrX}
Namespaces == Labels
Suffixes == {StrSuffix, <<>>}

(***************************************************************************)
(* The Kubernetes objects the extractors read (corev1.Pod and              *)
(* networkingv1beta1.Ingress, reduced to the fields that hold references), *)
(* and the bounded sets the inputs are drawn from.                         *)
(***************************************************************************)
EmptyContainer == [Env |-> <<>>, EnvFrom |-> <<>>]

EmptyPod ==
    [Namespace |-> StrTest, Containers |-> <<>>, InitContainers |-> <<>>,
     EphemeralContainers |-> <<>>, ImagePullSecrets |-> <<>>, Volumes |-> <<>>]

EmptyIngress == [Namespace |-> StrTest, TLS |-> <<>>]

NoCall == [op |-> "none"]

\* The API proxy serves no request and no service is being created.
NoRequest == [verb |-> "", resource |-> "", subresource |-> "", path |-> ""]
ProxyIdle ==
    /\ request = NoRequest
    /\ stage = "idle"
    /\ authorizer = "none"
    /\ offered = <<>>
    /\ handledBy = <<>>
    /\ lock = Nil
    /\ creates = <<>>
    /\ physicalServices = {}
    /\ virtualServices = {}

\* The installer is not run.
InstallerIdle ==
    /\ cmd = [CreateNamespace |-> TRUE, ReleaseValues |-> <<>>]
    /\ hostNamespaces = {}
    /\ hostServices = {}
    /\ run = NoCall

\* The secret syncer is not running: no cluster state.
SyncerIdle ==
    /\ includeIngresses = FALSE
    /\ vPods = {}
    /\ vIngresses = {}
    /\ vSecrets = {}
    /\ pSecrets = {}
    /\ last = NoCall

\* A reference site of a generated pod: where it stands, what it refers to
\* ("secret", "configmap", or "none" for an entry holding no reference), and
\* the name it carries (possibly the empty string).
SecretLocs == {"c1.env", "c1.envFrom", "c2.env", "init.env", "eph.env",
               "eph.envFrom", "ips", "vol"}
ConfigLocs == SecretLocs \ {"ips"}
Sites ==
    [loc : SecretLocs, kind : {"secret"}, name : {<<>>, StrA, StrB}]
    \cup [loc : ConfigLocs, kind : {"configmap"}, name : {<<>>, StrC}]
    \cup [loc : {"c1.env", "vol"}, kind : {"none"}, name : {<<>>}]

EnvVarOf(site) ==
    [ValueFrom |->
        IF site.kind = "none" THEN Nil
        ELSE Ptr([SecretKeyRef |->
                     IF site.kind = "secret" THEN Ptr([Name |-> site.name]) ELSE Nil,
                  ConfigMapKeyRef |->
                     IF site.kind = "configmap" THEN Ptr([Name |-> site.name]) ELSE Nil])]

EnvFromOf(site) ==
    [SecretRef |-> IF site.kind = "secret" THEN Ptr([Name |-> site.name]) ELSE Nil,
     ConfigMapRef |-> IF site.kind = "configmap" THEN Ptr([Name |-> site.name]) ELSE Nil]

VolumeOf(site) ==
    [Secret |-> IF site.kind = "secret" THEN Ptr([SecretName |-> site.name]) ELSE Nil,
     ConfigMap |-> IF site.kind = "configmap" THEN Ptr([Name |-> site.name]) ELSE Nil]

RECURSIVE MapSeq(_, _)
MapSeq(Op(_), seq) ==
    IF seq = <<>> THEN <<>> ELSE <<Op(Head(seq))>> \o MapSeq(Op, Tail(seq))

At(sites, loc) == SelectSeq(sites, LAMBDA st : st.loc = loc)

ContainerOf(sites, prefix) ==
    [Env |-> MapSeq(EnvVarOf, At(sites, prefix \o ".env")),
     EnvFrom |-> MapSeq(EnvFromOf, At(sites, prefix \o ".envFrom"))]

ContainersOf(sites, prefixes) ==
    MapSeq(LAMBDA pf : ContainerOf(sites, pf),
           SelectSeq(prefixes, LAMBDA pf : ContainerOf(sites, pf) # EmptyContainer))

\* The pod whose reference-bearing entries are the given sites, in order.
PodOf(namespace, sites) ==
    [Namespace |-> namespace,
     Containers |-> <<ContainerOf(sites, "c1")>> \o ContainersOf(sites, <<"c2">>),
     InitContainers |-> ContainersOf(sites, <<"init">>),
     EphemeralContainers |-> ContainersOf(sites, <<"eph">>),
     ImagePullSecrets |-> MapSeq(LAMBDA st : [Name |-> st.name], At(sites, "ips")),
     Volumes |-> MapSeq(VolumeOf, At(sites, "vol"))]

RECURSIVE SeqsUpTo(_, _)
SeqsUpTo(S, n) ==
    IF n = 0 THEN {<<>>}
    ELSE LET shorter == SeqsUpTo(S, n - 1)
         IN  shorter \cup {s \o <<x>> : s \in shorter, x \in S}

Pods == {PodOf(StrTest, sites) : sites \in SeqsUpTo(Sites, MaxRefs)}

Ingresses ==
    {[Namespace |-> StrTest, TLS |-> MapSeq(LAMBDA n : [SecretName |-> n], names)] :
        names \in SeqsUpTo({<<>>, StrA, StrB}, MaxTLS)}

(***************************************************************************)
(* Object metadata (metav1.ObjectMeta).  A Go map is a record of its       *)
(* nil-ness and its entries; keys are TLA+ strings, values Go strings.     *)
(***************************************************************************)
EmptyKV == [k \in {} |-> <<>>]
NilMap == [nil |-> TRUE, kv |-> EmptyKV]
MakeMap(kv) == [nil |-> FALSE, kv |-> kv]

\* m[k]: the zero value when the key is missing or the map is nil.
Lookup(m, k) == IF k \in DOMAIN m.kv THEN m.kv[k] ELSE <<>>

\* m[k] = v on a non-nil map.
Store(m, k, v) ==
    MakeMap([x \in DOMAIN m.kv \cup {k} |-> IF x = k THEN v ELSE m.kv[x]])

MarkerLabel == "vcluster.loft.sh/managed-by"

EmptyMeta ==
    [Name |-> <<>>, Namespace |-> <<>>, GenerateName |-> <<>>, SelfLink |-> <<>>,
     UID |-> <<>>, ResourceVersion |-> <<>>, Generation |-> 0,
     CreationTimestamp |-> 0, DeletionTimestamp |-> Nil,
     DeletionGracePeriodSeconds |-> Nil, OwnerReferences |-> <<>>,
     Finalizers |-> <<>>, ClusterName |-> <<>>, ManagedFields |-> <<>>,
     Labels |-> NilMap, Annotations |-> NilMap]

\* A runtime.Object: meta.Accessor fails on one without object metadata.
NoObject == [hasMeta |-> FALSE, meta |-> EmptyMeta]
ObjectOf(m) == [hasMeta |-> TRUE, meta |-> m]

LabelKeys == {MarkerLabel, "app"}
LabelValues == {<<>>, StrSuffix, StrX}
LabelMaps ==
    {NilMap} \cup {MakeMap(kv) : kv \in UNION {[K -> LabelValues] : K \in SUBSET LabelKeys}}
AnnotationMaps == {NilMap, MakeMap([k \in {"note"} |-> StrA])}

Objects ==
    {NoObject} \cup
    {ObjectOf([EmptyMeta EXCEPT !.Name = StrA, !.Namespace = StrTest,
                                !.Labels = l, !.Annotations = a]) :
        l \in LabelMaps, a \in AnnotationMaps}

(***************************************************************************)
(* package translate                                                       *)
(***************************************************************************)
Lowercase == <<"a", "b", "c", "d", "e", "f", "g", "h", "i", "j", "k", "l", "m",
               "n", "o", "p", "q", "r", "s", "t", "u", "v", "w", "x", "y", "z">>

\* []byte(fullPath): the ASCII code of each character.
CharCode(c) ==
    IF c = "-" THEN 45
    ELSE IF c = "/" THEN 47
    ELSE 96 + (CHOOSE i \in 1..26 : Lowercase[i] = c)

Bytes(s) == [i \in 1..Len(s) |-> CharCode(s[i])]

\* sha256.Sum256 is the standard library's; it is modelled by a deterministic
\* 32-byte digest of the whole input: a position-weighted sum of the bytes,
\* spread over the digest's bytes.
RECURSIVE PowMod(_, _)
PowMod(b, e) ==
    IF e = 0 THEN 1
    ELSE LET half == PowMod(b, e \div 2)
             sq == (half * half) % 32749
         IN  IF e % 2 = 0 THEN sq ELSE (sq * b) % 32749

RECURSIVE Absorb(_, _, _)
Absorb(bytes, lo, hi) ==
    IF lo > hi THEN 0
    ELSE IF lo = hi THEN (bytes[lo] * PowMod(31, lo)) % 16777213
    ELSE LET mid == (lo + hi) \div 2
         IN  (Absorb(bytes, lo, mid) + Absorb(bytes, mid + 1, hi)) % 16777213

Sum256(bytes) ==
    LET h == Absorb(bytes, 1, Len(bytes))
    IN  [i \in 1..32 |->
            CASE i % 3 = 1 -> h % 256
              [] i % 3 = 2 -> (h \div 256) % 256
              [] OTHER     -> (h \div 65536) % 256]

HexDigits == <<"0", "1", "2", "3", "4", "5", "6", "7",
               "8", "9", "a", "b", "c", "d", "e", "f">>

\* hex.EncodeToString: two lower-case hex digits per byte, high nibble first.
EncodeToString(bytes) ==
    [i \in 1..(2 * Len(bytes)) |->
        IF i % 2 = 1 THEN HexDigits[(bytes[(i + 1) \div 2] \div 16) + 1]
        ELSE HexDigits[(bytes[i \div 2] % 16) + 1]]

\* strings.Join
RECURSIVE Join(_, _)
Join(elems, sep) ==
    IF elems = <<>> THEN <<>>
    ELSE IF Len(elems) = 1 THEN elems[1]
    ELSE elems[1] \o sep \o Join(Tail(elems), sep)

\* SafeConcatName with the length test off by one: 64 characters pass whole.
SafeConcatNameLate(name) ==
    LET fullPath == Join(name, Dash)
    IN  IF Len(fullPath) > 64
        THEN LET digest == Sum256(Bytes(fullPath))
             IN  SubSeq(fullPath, 1, 52) \o Dash
                 \o SubSeq(EncodeToString(digest), 1, 10)
        ELSE fullPath

SafeConcatName(name) ==
    LET fullPath == Join(name, Dash)
    IN  IF Len(fullPath) > 63
        THEN LET digest == Sum256(Bytes(fullPath))
             IN  SubSeq(fullPath, 1, 52) \o Dash
                 \o SubSeq(EncodeToString(digest), 1, 10)
        ELSE fullPath

\* Returns the physical name of the name / namespace resource; reads the
\* package variable Suffix.
PhysicalName(name, namespace) ==
    SafeConcatName(<<name, StrX, namespace, StrX, Suffix>>)

\* UniqueSlice: the entries in order, without the empty string and without
\* an entry already kept.
RECURSIVE UniqueSliceFrom(_, _, _)
UniqueSliceFrom(stringSlice, i, list) ==
    IF i > Len(stringSlice) THEN list
    ELSE LET entry == stringSlice[i]
             keys == {list[k] : k \in 1..Len(list)}
         IN  IF entry = <<>> THEN UniqueSliceFrom(stringSlice, i + 1, list)
             ELSE IF entry \notin keys
                  THEN UniqueSliceFrom(stringSlice, i + 1, Append(list, entry))
                  ELSE UniqueSliceFrom(stringSlice, i + 1, list)

\* UniqueSlice without the membership test: repeated entries are kept.
UniqueSliceKeepsAll(stringSlice) == SelectSeq(stringSlice, LAMBDA e : e # <<>>)

UniqueSlice(stringSlice) == UniqueSliceFrom(stringSlice, 1, <<>>)

\* IsManaged's and EqualExcept's helper: linear search.
exists(a, k) == \E i \in 1..Len(a) : a[i] = k

\* EqualExcept: false as soon as a key of a that is not excepted has another
\* value in b (or b is nil), or the other way round; the order in which Go
\* ranges over a map does not change the result.
EqualExcept(a, b, except) ==
    IF \E k \in DOMAIN a.kv :
            ~exists(except, k) /\ (b.nil \/ Lookup(b, k) # a.kv[k])
    THEN FALSE
    ELSE IF \E k \in DOMAIN b.kv :
                 ~exists(except, k) /\ (a.nil \/ Lookup(a, k) # b.kv[k])
         THEN FALSE
         ELSE TRUE

IsManaged(o) ==
    IF ~o.hasMeta THEN FALSE
    ELSE IF o.meta.Labels.nil THEN FALSE
    ELSE Lookup(o.meta.Labels, MarkerLabel) = Suffix

\* ResetObjectMetadata that also clears the annotations.
ResetObjectMetadataDropsAnnotations(m) ==
    [m EXCEPT !.GenerateName = <<>>, !.SelfLink = <<>>, !.UID = <<>>,
              !.ResourceVersion = <<>>, !.Generation = 0,
              !.CreationTimestamp = 0, !.DeletionTimestamp = Nil,
              !.DeletionGracePeriodSeconds = Nil, !.OwnerReferences = <<>>,
              !.Finalizers = <<>>, !.ClusterName = <<>>, !.ManagedFields = <<>>,
              !.Labels = NilMap, !.Annotations = NilMap]

\* ResetObjectMetadata resets the object's metadata except name, namespace
\* and annotations.
ResetObjectMetadata(m) ==
    [m EXCEPT !.GenerateName = <<>>, !.SelfLink = <<>>, !.UID = <<>>,
              !.ResourceVersion = <<>>, !.Generation = 0,
              !.CreationTimestamp = 0, !.DeletionTimestamp = Nil,
              !.DeletionGracePeriodSeconds = Nil, !.OwnerReferences = <<>>,
              !.Finalizers = <<>>, !.ClusterName = <<>>, !.ManagedFields = <<>>,
              !.Labels = NilMap]

\* initMetadata without the call of ResetObjectMetadata.
initMetadataNoReset(targetNamespace, target) ==
    IF ~target.hasMeta THEN [err |-> TRUE, obj |-> target]
    ELSE LET name == target.meta.Name
             namespace == target.meta.Namespace
             named == [target.meta EXCEPT !.Name = PhysicalName(name, namespace),
                                          !.Namespace = targetNamespace]
             labels == IF named.Labels.nil THEN MakeMap(EmptyKV) ELSE named.Labels
             marked == [named EXCEPT !.Labels = Store(labels, MarkerLabel, Suffix)]
             owned ==
                 IF OwningStatefulSet # Nil
                 THEN [marked EXCEPT !.OwnerReferences =
                          <<[APIVersion |-> "apps/v1", Kind |-> "StatefulSet",
                             Name |-> Deref(OwningStatefulSet).Name,
                             UID |-> Deref(OwningStatefulSet).UID]>>]
                 ELSE marked
         IN  [err |-> FALSE, obj |-> [target EXCEPT !.meta = owned]]

\* initMetadata: the error of meta.Accessor, or the translated metadata.
initMetadata(targetNamespace, target) ==
    IF ~target.hasMeta THEN [err |-> TRUE, obj |-> target]
    ELSE LET name == target.meta.Name
             namespace == target.meta.Namespace
             reset == ResetObjectMetadata(target.meta)
             named == [reset EXCEPT !.Name = PhysicalName(name, namespace),
                                    !.Namespace = targetNamespace]
             labels == IF named.Labels.nil THEN MakeMap(EmptyKV) ELSE named.Labels
             marked == [named EXCEPT !.Labels = Store(labels, MarkerLabel, Suffix)]
             owned ==
                 IF OwningStatefulSet # Nil
                 THEN [marked EXCEPT !.OwnerReferences =
                          <<[APIVersion |-> "apps/v1", Kind |-> "StatefulSet",
                             Name |-> Deref(OwningStatefulSet).Name,
                             UID |-> Deref(OwningStatefulSet).UID]>>]
                 ELSE marked
         IN  [err |-> FALSE, obj |-> [target EXCEPT !.meta = owned]]

\* SetupMetadata works on a deep copy, so the argument is left as it was.
SetupMetadata(targetNamespace, o) == initMetadata(targetNamespace, o)

(***************************************************************************)
(* package pods                                                            *)
(***************************************************************************)
RECURSIVE FlatMap(_, _)
FlatMap(Op(_), seq) ==
    IF seq = <<>> THEN <<>> ELSE Op(Head(seq)) \o FlatMap(Op, Tail(seq))

\* SecretNamesFromContainer without the loop over container.Env.
SecretNamesFromContainerEnvFromOnly(namespace, container) ==
    MapSeq(LAMBDA from : namespace \o Slash \o Deref(from.SecretRef).Name,
           SelectSeq(container.EnvFrom, LAMBDA from :
               from.SecretRef # Nil /\ Deref(from.SecretRef).Name # <<>>))

SecretNamesFromContainer(namespace, container) ==
    LET fromEnv ==
            SelectSeq(container.Env, LAMBDA env :
                /\ env.ValueFrom # Nil
                /\ Deref(env.ValueFrom).SecretKeyRef # Nil
                /\ Deref(Deref(env.ValueFrom).SecretKeyRef).Name # <<>>)
        fromEnvFrom ==
            SelectSeq(container.EnvFrom, LAMBDA from :
                /\ from.SecretRef # Nil
                /\ Deref(from.SecretRef).Name # <<>>)
    IN  MapSeq(LAMBDA env :
                   namespace \o Slash \o Deref(Deref(env.ValueFrom).SecretKeyRef).Name,
               fromEnv)
        \o MapSeq(LAMBDA from : namespace \o Slash \o Deref(from.SecretRef).Name,
                  fromEnvFrom)

SecretNamesFromEphemeralContainer(namespace, container) ==
    LET fromEnv ==
            SelectSeq(container.Env, LAMBDA env :
                /\ env.ValueFrom # Nil
                /\ Deref(env.ValueFrom).SecretKeyRef # Nil
                /\ Deref(Deref(env.ValueFrom).SecretKeyRef).Name # <<>>)
        fromEnvFrom ==
            SelectSeq(container.EnvFrom, LAMBDA from :
                /\ from.SecretRef # Nil
                /\ Deref(from.SecretRef).Name # <<>>)
    IN  MapSeq(LAMBDA env :
                   namespace \o Slash \o Deref(Deref(env.ValueFrom).SecretKeyRef).Name,
               fromEnv)
        \o MapSeq(LAMBDA from : namespace \o Slash \o Deref(from.SecretRef).Name,
                  fromEnvFrom)

ConfigNamesFromContainer(namespace, container) ==
    LET fromEnv ==
            SelectSeq(container.Env, LAMBDA env :
                /\ env.ValueFrom # Nil
                /\ Deref(env.ValueFrom).ConfigMapKeyRef # Nil
                /\ Deref(Deref(env.ValueFrom).ConfigMapKeyRef).Name # <<>>)
        fromEnvFrom ==
            SelectSeq(container.EnvFrom, LAMBDA from :
                /\ from.ConfigMapRef # Nil
                /\ Deref(from.ConfigMapRef).Name # <<>>)
    IN  MapSeq(LAMBDA env :
                   namespace \o Slash \o Deref(Deref(env.ValueFrom).ConfigMapKeyRef).Name,
               fromEnv)
        \o MapSeq(LAMBDA from : namespace \o Slash \o Deref(from.ConfigMapRef).Name,
                  fromEnvFrom)

ConfigNamesFromEphemeralContainer(namespace, container) ==
    LET fromEnv ==
            SelectSeq(container.Env, LAMBDA env :
                /\ env.ValueFrom # Nil
                /\ Deref(env.ValueFrom).ConfigMapKeyRef # Nil
                /\ Deref(Deref(env.ValueFrom).ConfigMapKeyRef).Name # <<>>)
        fromEnvFrom ==
            SelectSeq(container.EnvFrom, LAMBDA from :
                /\ from.ConfigMapRef # Nil
                /\ Deref(from.ConfigMapRef).Name # <<>>)
    IN  MapSeq(LAMBDA env :
                   namespace \o Slash \o Deref(Deref(env.ValueFrom).ConfigMapKeyRef).Name,
               fromEnv)
        \o MapSeq(LAMBDA from : namespace \o Slash \o Deref(from.ConfigMapRef).Name,
                  fromEnvFrom)

\* SecretNamesFromPod without the loop over pod.Spec.Volumes.
SecretNamesFromPodNoVolumes(p) ==
    LET secrets ==
            FlatMap(LAMBDA c : SecretNamesFromContainer(p.Namespace, c), p.Containers)
            \o FlatMap(LAMBDA c : SecretNamesFromContainer(p.Namespace, c),
                       p.InitContainers)
            \o FlatMap(LAMBDA c : SecretNamesFromEphemeralContainer(p.Namespace, c),
                       p.EphemeralContainers)
            \o MapSeq(LAMBDA ips : p.Namespace \o Slash \o ips.Name, p.ImagePullSecrets)
    IN  UniqueSlice(secrets)

\* SecretNamesFromPod with the volume loop of ConfigNamesFromPod pasted in:
\* config map volumes are taken for secrets too.
SecretNamesFromPodAnyVolume(p) ==
    LET secrets ==
            FlatMap(LAMBDA c : SecretNamesFromContainer(p.Namespace, c), p.Containers)
            \o FlatMap(LAMBDA c : SecretNamesFromContainer(p.Namespace, c),
                       p.InitContainers)
            \o FlatMap(LAMBDA c : SecretNamesFromEphemeralContainer(p.Namespace, c),
                       p.EphemeralContainers)
            \o MapSeq(LAMBDA ips : p.Namespace \o Slash \o ips.Name, p.ImagePullSecrets)
            \o MapSeq(LAMBDA v : p.Namespace \o Slash \o
                          (IF v.Secret # Nil THEN Deref(v.Secret).SecretName
                           ELSE Deref(v.ConfigMap).Name),
                      SelectSeq(p.Volumes, LAMBDA v : v.Secret # Nil \/ v.ConfigMap # Nil))
    IN  UniqueSlice(secrets)

SecretNamesFromPod(p) ==
    LET secrets ==
            FlatMap(LAMBDA c : SecretNamesFromContainer(p.Namespace, c), p.Containers)
            \o FlatMap(LAMBDA c : SecretNamesFromContainer(p.Namespace, c),
                       p.InitContainers)
            \o FlatMap(LAMBDA c : SecretNamesFromEphemeralContainer(p.Namespace, c),
                       p.EphemeralContainers)
            \o MapSeq(LAMBDA ips : p.Namespace \o Slash \o ips.Name, p.ImagePullSecrets)
            \o MapSeq(LAMBDA v : p.Namespace \o Slash \o Deref(v.Secret).SecretName,
                      SelectSeq(p.Volumes, LAMBDA v : v.Secret # Nil))
    IN  UniqueSlice(secrets)

ConfigNamesFromPod(p) ==
    LET configMaps ==
            FlatMap(LAMBDA c : ConfigNamesFromContainer(p.Namespace, c), p.Containers)
            \o FlatMap(LAMBDA c : ConfigNamesFromContainer(p.Namespace, c),
                       p.InitContainers)
            \o FlatMap(LAMBDA c : ConfigNamesFromEphemeralContainer(p.Namespace, c),
                       p.EphemeralContainers)
            \o MapSeq(LAMBDA v : p.Namespace \o Slash \o Deref(v.ConfigMap).Name,
                      SelectSeq(p.Volumes, LAMBDA v : v.ConfigMap # Nil))
    IN  UniqueSlice(configMaps)

(***************************************************************************)
(* package secrets: the event mappers of the secret syncer.  Their code is *)
(* not part of the sources at hand; they are modelled from the             *)
(* specification (section 4.2 and 4.4) and from TestMapping.               *)
(***************************************************************************)
\* The index of the first "/" of s, or 0.
SlashIndex(s) ==
    IF \E i \in 1..Len(s) : s[i] = "/"
    THEN CHOOSE i \in 1..Len(s) : s[i] = "/" /\ \A j \in 1..(i - 1) : s[j] # "/"
    ELSE 0

\* The reconcile request of an index key "<namespace>/<name>".
RequestOf(key) ==
    [Namespace |-> SubSeq(key, 1, SlashIndex(key) - 1),
     Name |-> SubSeq(key, SlashIndex(key) + 1, Len(key))]

\* A virtual pod event enqueues every secret the pod references.
mapPods(p) == MapSeq(RequestOf, SecretNamesFromPod(p))

\* mapIngresses through UniqueSlice: a repeated secret is requested once.
mapIngressesUnique(ing) ==
    MapSeq(RequestOf,
           UniqueSlice(MapSeq(LAMBDA tls : ing.Namespace \o Slash \o tls.SecretName,
                              ing.TLS)))

\* secrets_referenced_by(ingress): spec.tls[*].secretName, each qualified with
\* the ingress namespace; one request each.
mapIngresses(ing) ==
    MapSeq(LAMBDA tls : [Namespace |-> ing.Namespace, Name |-> tls.SecretName], ing.TLS)

(***************************************************************************)
(* Reference extraction: each extractor is applied to a pod (or ingress)   *)
(* drawn from the bounded input sets.                                      *)
(***************************************************************************)
InitRefs ==
    /\ Suffix = StrSuffix
    /\ observed = {}
    /\ \/ pod \in Pods /\ ingress = EmptyIngress
       \/ pod = EmptyPod /\ ingress \in Ingresses
    /\ ret = NoCall
    /\ ProxyIdle
    /\ InstallerIdle
    /\ OwningStatefulSet = Nil
    /\ obj = NoObject
    /\ SyncerIdle

CallSecretNamesFromPod ==
    /\ ret' = [op |-> "SecretNamesFromPod", out |-> SecretNamesFromPod(pod)]
    /\ UNCHANGED <<proxyVars, cliVars, cfgVars, observed, pod, ingress, obj, syncVars>>

CallConfigNamesFromPod ==
    /\ ret' = [op |-> "ConfigNamesFromPod", out |-> ConfigNamesFromPod(pod)]
    /\ UNCHANGED <<proxyVars, cliVars, cfgVars, observed, pod, ingress, obj, syncVars>>

CallMapPods ==
    /\ ret' = [op |-> "mapPods", out |-> mapPods(pod)]
    /\ UNCHANGED <<proxyVars, cliVars, cfgVars, observed, pod, ingress, obj, syncVars>>

CallMapIngresses ==
    /\ ret' = [op |-> "mapIngresses", out |-> mapIngresses(ingress)]
    /\ UNCHANGED <<proxyVars, cliVars, cfgVars, observed, pod, ingress, obj, syncVars>>

NextRefs ==
    \/ CallSecretNamesFromPod
    \/ CallConfigNamesFromPod
    \/ CallMapPods
    \/ CallMapIngresses

SpecRefs == InitRefs /\ [][NextRefs]_vars

(***************************************************************************)
(* Name translation: PhysicalName is applied to identities drawn from      *)
(* Names x Namespaces under a suffix fixed at start-up.                    *)
(***************************************************************************)
InitTranslate ==
    /\ Suffix \in Suffixes
    /\ observed = {}
    /\ pod = EmptyPod
    /\ ingress = EmptyIngress
    /\ ret = NoCall
    /\ ProxyIdle
    /\ InstallerIdle
    /\ OwningStatefulSet = Nil
    /\ obj = NoObject
    /\ SyncerIdle

\* A caller translates the virtual identity (n, ns); the same identity may be
\* translated again.
Translate(n, ns) ==
    /\ \/ Cardinality(observed) < MaxObserved
       \/ \E o \in observed : o.name = n /\ o.namespace = ns
    /\ observed' = observed \cup
           {[name |-> n, namespace |-> ns, physical |-> PhysicalName(n, ns)]}
    /\ UNCHANGED <<proxyVars, cliVars, cfgVars, pod, ingress, ret, obj, syncVars>>

NextTranslate == \E n \in Names, ns \in Namespaces : Translate(n, ns)

SpecTranslate == InitTranslate /\ [][NextTranslate]_vars

\* The whole string: the five parts joined with "-".
Joined(o) == o.name \o <<"-", "x", "-">> \o o.namespace \o <<"-", "x", "-">> \o Suffix

(***************************************************************************)
(* C1: PhysicalName(name, namespace) is name + "-x-" + namespace + "-x-" + *)
(* suffix when that string has at most 63 characters, and otherwise its    *)
(* first 52 characters, "-", and the first 10 hex characters of the digest *)
(* of the whole string; the result never exceeds 63 characters; and the    *)
(* same inputs under the same suffix always give the same result.          *)
(***************************************************************************)
PhysicalNameContract ==
    /\ \A o \in observed :
        /\ Len(Joined(o)) <= 63 => o.physical = Joined(o)
        /\ Len(Joined(o)) > 63 =>
              /\ Len(o.physical) = 63
              /\ SubSeq(o.physical, 1, 52) = SubSeq(Joined(o), 1, 52)
              /\ o.physical[53] = "-"
              /\ SubSeq(o.physical, 54, 63)
                    = SubSeq(EncodeToString(Sum256(Bytes(Joined(o)))), 1, 10)
        /\ Len(o.physical) <= 63
    /\ \A o1, o2 \in observed :
        (o1.name = o2.name /\ o1.namespace = o2.namespace)
            => o1.physical = o2.physical

\* Both regimes at the boundary: a whole string of exactly 63 characters and
\* one of exactly 64 have been translated.
PhysicalNameWitness ==
    \E o1, o2 \in observed :
        /\ Len(Joined(o1)) = 63 /\ o1.physical = Joined(o1)
        /\ Len(Joined(o2)) = 64 /\ Len(o2.physical) = 63

(***************************************************************************)
(* C2: under a fixed suffix PhysicalName is injective on valid Kubernetes  *)
(* names: two distinct virtual identities never get the same physical      *)
(* name.                                                                   *)
(***************************************************************************)
PhysicalNameInjective ==
    \A o1, o2 \in observed :
        <<o1.name, o1.namespace>> # <<o2.name, o2.namespace>>
            => o1.physical # o2.physical

(***************************************************************************)
(* package secrets: the secret syncer.  Its code is not part of the        *)
(* sources at hand; it is modelled from the specification (sections 4.3    *)
(* and 4.4) and from TestSync, which fixes what each call leaves in the    *)
(* physical state.                                                         *)
(***************************************************************************)
TargetNamespace == StrHost

\* A secret as the virtual API server stores it.
VirtualSecret(name, namespace, data) ==
    [hasMeta |-> TRUE,
     meta |-> [EmptyMeta EXCEPT !.Name = name, !.Namespace = namespace,
                                !.UID = <<"u">>, !.ResourceVersion = <<"r">>,
                                !.Generation = 1, !.CreationTimestamp = 1,
                                !.Labels = MakeMap([k \in {"app"} |-> StrX])],
     Data |-> data]

SecretData == {NilMap, MakeMap([k \in {"test"} |-> StrTest])}

\* The objects tenants create.
SyncSecretNames == {StrA, StrB}
SyncNamespaces == {StrTest, StrX}
SyncPods ==
    {PodOf(ns, <<[loc |-> l, kind |-> "secret", name |-> n]>>) :
        ns \in SyncNamespaces, n \in SyncSecretNames, l \in {"vol"}}
    \cup {PodOf(StrTest, <<[loc |-> "c1.env", kind |-> "secret", name |-> StrA]>>),
          PodOf(StrTest, <<[loc |-> "vol", kind |-> "configmap", name |-> StrA]>>)}
SyncIngresses ==
    {[Namespace |-> ns, TLS |-> <<[SecretName |-> StrA]>>] : ns \in SyncNamespaces}

\* The pods-by-secret index of the virtual client: keys "<namespace>/<name>".
indexPodBySecret(p) == SecretNamesFromPod(p)

\* The ingresses-by-secret index.
indexIngressBySecret(ing) ==
    MapSeq(LAMBDA r : r.Namespace \o Slash \o r.Name, mapIngresses(ing))

\* In scope: referenced by a pod, or (ingress sync enabled) by an ingress.
isSecretUsed(v) ==
    LET key == v.meta.Namespace \o Slash \o v.meta.Name
    IN  \/ \E p \in vPods : key \in {indexPodBySecret(p)[i] :
                                        i \in 1..Len(indexPodBySecret(p))}
        \/ /\ includeIngresses
           /\ \E ing \in vIngresses :
                 key \in {indexIngressBySecret(ing)[i] :
                             i \in 1..Len(indexIngressBySecret(ing))}

ForwardCreateNeeded(v) == isSecretUsed(v)

\* The physical secret forward create writes.
translate(v) == [SetupMetadata(TargetNamespace, v).obj EXCEPT !.Data = v.Data]

\* forward_update_needed compares the synced fields.
ForwardUpdateNeeded(p, v) == ~isSecretUsed(v) \/ p.Data # v.Data

\* The physical object of a virtual one: found by its translated name.
IsPhysicalOf(p, v) ==
    /\ p.meta.Name = PhysicalName(v.meta.Name, v.meta.Namespace)
    /\ p.meta.Namespace = TargetNamespace

InitSync ==
    /\ Suffix = StrSuffix
    /\ OwningStatefulSet = Nil
    /\ observed = {}
    /\ pod = EmptyPod
    /\ ingress = EmptyIngress
    /\ obj = NoObject
    /\ ret = NoCall
    /\ ProxyIdle
    /\ InstallerIdle
    /\ includeIngresses \in BOOLEAN
    /\ vPods = {}
    /\ vIngresses = {}
    /\ vSecrets = {}
    /\ pSecrets = {}
    /\ last = NoCall

Untouched ==
    UNCHANGED <<proxyVars, cliVars, cfgVars, observed, pod, ingress, obj, ret,
                includeIngresses>>

\* Tenant operations on the virtual cluster.
CreatePod(p) ==
    /\ p \notin vPods
    /\ Cardinality(vPods) < MaxPods
    /\ vPods' = vPods \cup {p}
    /\ last' = NoCall
    /\ UNCHANGED <<vIngresses, vSecrets, pSecrets>>
    /\ Untouched

DeletePod(p) ==
    /\ p \in vPods
    /\ vPods' = vPods \ {p}
    /\ last' = NoCall
    /\ UNCHANGED <<vIngresses, vSecrets, pSecrets>>
    /\ Untouched

CreateIngress(ing) ==
    /\ ing \notin vIngresses
    /\ Cardinality(vIngresses) < MaxIngresses
    /\ vIngresses' = vIngresses \cup {ing}
    /\ last' = NoCall
    /\ UNCHANGED <<vPods, vSecrets, pSecrets>>
    /\ Untouched

DeleteIngress(ing) ==
    /\ ing \in vIngresses
    /\ vIngresses' = vIngresses \ {ing}
    /\ last' = NoCall
    /\ UNCHANGED <<vPods, vSecrets, pSecrets>>
    /\ Untouched

CreateSecret(name, namespace, data) ==
    /\ \A v \in vSecrets : <<v.meta.Name, v.meta.Namespace>> # <<name, namespace>>
    /\ vSecrets' = vSecrets \cup {VirtualSecret(name, namespace, data)}
    /\ last' = NoCall
    /\ UNCHANGED <<vPods, vIngresses, pSecrets>>
    /\ Untouched

UpdateSecret(v, data) ==
    /\ v \in vSecrets
    /\ v.Data # data
    /\ vSecrets' = (vSecrets \ {v}) \cup {[v EXCEPT !.Data = data]}
    /\ last' = NoCall
    /\ UNCHANGED <<vPods, vIngresses, pSecrets>>
    /\ Untouched

DeleteSecret(v) ==
    /\ v \in vSecrets
    /\ vSecrets' = vSecrets \ {v}
    /\ last' = NoCall
    /\ UNCHANGED <<vPods, vIngresses, pSecrets>>
    /\ Untouched

\* The syncer's decisions, as TestSync calls them.
CallForwardCreateNeeded(v) ==
    /\ v \in vSecrets
    /\ last' = [op |-> "ForwardCreateNeeded", v |-> v, needed |-> ForwardCreateNeeded(v)]
    /\ UNCHANGED <<vPods, vIngresses, vSecrets, pSecrets>>
    /\ Untouched

CallForwardUpdateNeeded(p, v) ==
    /\ v \in vSecrets
    /\ p \in pSecrets
    /\ IsPhysicalOf(p, v)
    /\ last' = [op |-> "ForwardUpdateNeeded", v |-> v, p |-> p,
                needed |-> ForwardUpdateNeeded(p, v)]
    /\ UNCHANGED <<vPods, vIngresses, vSecrets, pSecrets>>
    /\ Untouched

\* forward_create: the reconciler found no physical object for v.  A secret
\* out of scope is not created.
ForwardCreate(v) ==
    /\ v \in vSecrets
    /\ \A p \in pSecrets : ~IsPhysicalOf(p, v)
    /\ pSecrets' = IF ForwardCreateNeeded(v) THEN pSecrets \cup {translate(v)}
                   ELSE pSecrets
    /\ last' = [op |-> "ForwardCreate", v |-> v, before |-> pSecrets]
    /\ UNCHANGED <<vPods, vIngresses, vSecrets>>
    /\ Untouched

\* forward_update: the reconciler found both objects.  Loss of demand deletes
\* the physical secret; a difference is written to it.
ForwardUpdate(p, v) ==
    /\ v \in vSecrets
    /\ p \in pSecrets
    /\ IsPhysicalOf(p, v)
    /\ pSecrets' =
          IF ~isSecretUsed(v) THEN pSecrets \ {p}
          ELSE IF p.Data # v.Data
               THEN (pSecrets \ {p}) \cup {[p EXCEPT !.Data = v.Data]}
               ELSE pSecrets
    /\ last' = [op |-> "ForwardUpdate", v |-> v, p |-> p, before |-> pSecrets]
    /\ UNCHANGED <<vPods, vIngresses, vSecrets>>
    /\ Untouched

\* forward_delete: a managed physical secret whose virtual secret is gone.
ForwardDelete(p) ==
    /\ p \in pSecrets
    /\ IsManaged(p)
    /\ \A v \in vSecrets : ~IsPhysicalOf(p, v)
    /\ pSecrets' = pSecrets \ {p}
    /\ last' = [op |-> "ForwardDelete", p |-> p, before |-> pSecrets]
    /\ UNCHANGED <<vPods, vIngresses, vSecrets>>
    /\ Untouched

Next ==
    \/ \E p \in SyncPods : CreatePod(p)
    \/ \E p \in SyncPods : DeletePod(p)
    \/ \E ing \in SyncIngresses : CreateIngress(ing)
    \/ \E ing \in SyncIngresses : DeleteIngress(ing)
    \/ \E n \in SyncSecretNames, d \in SecretData : CreateSecret(n, StrTest, d)
    \/ \E v \in vSecrets, d \in SecretData : UpdateSecret(v, d)
    \/ \E v \in vSecrets : DeleteSecret(v)
    \/ \E v \in vSecrets : CallForwardCreateNeeded(v)
    \/ \E v \in vSecrets, p \in pSecrets : CallForwardUpdateNeeded(p, v)
    \/ \E v \in vSecrets : ForwardCreate(v)
    \/ \E v \in vSecrets, p \in pSecrets : ForwardUpdate(p, v)
    \/ \E p \in pSecrets : ForwardDelete(p)

Spec == InitSync /\ [][Next]_vars

(***************************************************************************)
(* Reference extraction, stated independently: the references a pod       *)
(* holds, read off the pod field by field.                                 *)
(***************************************************************************)
Elems(seq) == {seq[i] : i \in 1..Len(seq)}

NoDuplicates(seq) == \A i, j \in 1..Len(seq) : seq[i] = seq[j] => i = j

\* The elements of seq at their first occurrence, in order.
FirstOccurrences(seq) ==
    LET first == {i \in 1..Len(seq) : \A j \in 1..(i - 1) : seq[j] # seq[i]}
    IN  [k \in 1..Cardinality(first) |->
            seq[CHOOSE i \in first : Cardinality({j \in first : j <= i}) = k]]

AllContainers(p) == p.Containers \o p.InitContainers \o p.EphemeralContainers

\* The secret names a container's entries carry (the empty name included), env
\* key references before envFrom references.
ContainerSecretRefs(c) ==
    MapSeq(LAMBDA e : Deref(Deref(e.ValueFrom).SecretKeyRef).Name,
           SelectSeq(c.Env, LAMBDA e :
               e.ValueFrom # Nil /\ Deref(e.ValueFrom).SecretKeyRef # Nil))
    \o MapSeq(LAMBDA f : Deref(f.SecretRef).Name,
              SelectSeq(c.EnvFrom, LAMBDA f : f.SecretRef # Nil))

ContainerConfigRefs(c) ==
    MapSeq(LAMBDA e : Deref(Deref(e.ValueFrom).ConfigMapKeyRef).Name,
           SelectSeq(c.Env, LAMBDA e :
               e.ValueFrom # Nil /\ Deref(e.ValueFrom).ConfigMapKeyRef # Nil))
    \o MapSeq(LAMBDA f : Deref(f.ConfigMapRef).Name,
              SelectSeq(c.EnvFrom, LAMBDA f : f.ConfigMapRef # Nil))

\* Every secret name of the pod in scan order: containers, then
\* imagePullSecrets, then volumes.
SecretRefsInOrder(p) ==
    FlatMap(ContainerSecretRefs, AllContainers(p))
    \o MapSeq(LAMBDA i : i.Name, p.ImagePullSecrets)
    \o MapSeq(LAMBDA v : Deref(v.Secret).SecretName,
              SelectSeq(p.Volumes, LAMBDA v : v.Secret # Nil))

ConfigRefsInOrder(p) ==
    FlatMap(ContainerConfigRefs, AllContainers(p))
    \o MapSeq(LAMBDA v : Deref(v.ConfigMap).Name,
              SelectSeq(p.Volumes, LAMBDA v : v.ConfigMap # Nil))

Named(names) == SelectSeq(names, LAMBDA n : n # <<>>)
Qualify(namespace, names) == MapSeq(LAMBDA n : namespace \o Slash \o n, names)
HasName(key) == SlashIndex(key) < Len(key)

(***************************************************************************)
(* C6: the entries SecretNamesFromPod returns are exactly                  *)
(* "<pod namespace>/<name>" for every secret name occurring in a container *)
(* env or envFrom reference, in imagePullSecrets or in a secret volume:    *)
(* nothing else is returned and no reference is missing.                   *)
(***************************************************************************)
SecretNamesExact ==
    ret.op = "SecretNamesFromPod" =>
        Elems(ret.out)
            = {pod.Namespace \o Slash \o n : n \in Elems(Named(SecretRefsInOrder(pod)))}

(***************************************************************************)
(* C7: no entry returned by SecretNamesFromPod or ConfigNamesFromPod has   *)
(* an empty object name, whichever field the empty name comes from.        *)
(***************************************************************************)
EmptyNamesDropped ==
    ret.op \in {"SecretNamesFromPod", "ConfigNamesFromPod"} =>
        \A key \in Elems(ret.out) : key # pod.Namespace \o Slash

(***************************************************************************)
(* C8: the lists returned by SecretNamesFromPod, ConfigNamesFromPod and    *)
(* mapPods hold no duplicate, and their named references stand in the      *)
(* order of their first occurrence in the scan of the pod: container       *)
(* references (env before envFrom), then imagePullSecrets, then volumes.   *)
(* A pod with env secretKeyRef a and secret volume b in namespace test     *)
(* yields [test/a, test/b].                                                *)
(***************************************************************************)
TestMappingPod ==
    PodOf(StrTest, <<[loc |-> "c1.env", kind |-> "secret", name |-> StrA],
                     [loc |-> "vol", kind |-> "secret", name |-> StrB]>>)

TestMappingIngress ==
    [Namespace |-> StrTest, TLS |-> <<[SecretName |-> StrA], [SecretName |-> StrB]>>]

InitMeta ==
    /\ Suffix \in Suffixes
    /\ observed = {}
    /\ pod = EmptyPod
    /\ ingress = EmptyIngress
    /\ ret = NoCall
    /\ ProxyIdle
    /\ InstallerIdle
    /\ OwningStatefulSet = Nil
    /\ obj \in Objects
    /\ SyncerIdle

CallIsManaged ==
    /\ ret' = [op |-> "IsManaged", out |-> IsManaged(obj)]
    /\ UNCHANGED <<proxyVars, cliVars, cfgVars, observed, pod, ingress, obj, syncVars>>

NextMeta == CallIsManaged

SpecMeta == InitMeta /\ [][NextMeta]_vars

(***************************************************************************)
(* C10: for every object and every configured suffix, IsManaged(obj) is    *)
(* true if and only if obj's labels contain the key                        *)
(* vcluster.loft.sh/managed-by with a value equal to the suffix; an object *)
(* without labels, or whose labels lack that key, is never managed.        *)
(***************************************************************************)
IsManagedIffMarked ==
    ret.op = "IsManaged" =>
        (ret.out <=>
            /\ obj.hasMeta
            /\ MarkerLabel \in DOMAIN obj.meta.Labels.kv
            /\ obj.meta.Labels.kv[MarkerLabel] = Suffix)

(***************************************************************************)
(* Secret syncer, stated independently: whether a virtual secret is       *)
(* referenced, read off the virtual state.                                 *)
(***************************************************************************)
ReferencedByPod(v) ==
    \E p \in vPods :
        /\ p.Namespace = v.meta.Namespace
        /\ v.meta.Name \in Elems(SecretRefsInOrder(p))

ReferencedByIngress(v) ==
    \E ing \in vIngresses :
        /\ ing.Namespace = v.meta.Namespace
        /\ \E i \in 1..Len(ing.TLS) : ing.TLS[i].SecretName = v.meta.Name

Referenced(v) == ReferencedByPod(v) \/ (includeIngresses /\ ReferencedByIngress(v))

(***************************************************************************)
(* C3: ForwardCreateNeeded(V) is true if and only if a pod in V's          *)
(* namespace references V (or, with ingress sync enabled, an ingress       *)
(* does); and ForwardCreate(V) on an empty physical state leaves exactly   *)
(* one secret, named PhysicalName(V.name, V.namespace) in the target       *)
(* namespace, when V is referenced, and no secret when it is not.          *)
(***************************************************************************)
ForwardCreateInScope ==
    /\ last.op = "ForwardCreateNeeded" => (last.needed <=> Referenced(last.v))
    /\ (last.op = "ForwardCreate" /\ last.before = {}) =>
          IF Referenced(last.v)
          THEN /\ Cardinality(pSecrets) = 1
               /\ \A p \in pSecrets :
                     /\ p.meta.Name
                           = PhysicalName(last.v.meta.Name, last.v.meta.Namespace)
                     /\ p.meta.Namespace = TargetNamespace
          ELSE pSecrets = {}

\* A referenced secret has been created on an empty physical state.
ForwardCreateWitness ==
    /\ last.op = "ForwardCreate"
    /\ last.before = {}
    /\ Referenced(last.v)
    /\ Cardinality(pSecrets) = 1

(***************************************************************************)
(* C4: when the physical secret P of a virtual secret V exists and nothing *)
(* references V any more while V still exists, ForwardUpdateNeeded(P, V)   *)
(* is true and ForwardUpdate(P, V) deletes P: a physical state that held   *)
(* only P holds no secret afterwards.                                      *)
(***************************************************************************)
LossOfDemandDeletes ==
    /\ (last.op = "ForwardUpdateNeeded" /\ ~Referenced(last.v)) => last.needed
    /\ (last.op = "ForwardUpdate" /\ ~Referenced(last.v)) =>
          /\ pSecrets = last.before \ {last.p}
          /\ last.before = {last.p} => pSecrets = {}

\* The only physical secret has been deleted for loss of demand.
LossOfDemandWitness ==
    /\ last.op = "ForwardUpdate"
    /\ ~Referenced(last.v)
    /\ last.v \in vSecrets
    /\ last.before = {last.p}
    /\ pSecrets = {}

(***************************************************************************)
(* C5: for a referenced virtual secret V whose data differs from that of   *)
(* its physical secret P, ForwardUpdateNeeded(P, V) is true, and after     *)
(* ForwardUpdate(P, V) there is exactly one secret with P's name and       *)
(* namespace, its data is V's data, and a physical state that held only P  *)
(* holds exactly that one secret.                                          *)
(***************************************************************************)
DataDrift == Referenced(last.v) /\ last.p.Data # last.v.Data

ForwardUpdateWritesData ==
    /\ (last.op = "ForwardUpdateNeeded" /\ DataDrift) => last.needed
    /\ (last.op = "ForwardUpdate" /\ DataDrift) =>
          LET same == {q \in pSecrets : /\ q.meta.Name = last.p.meta.Name
                                        /\ q.meta.Namespace = last.p.meta.Namespace}
          IN  /\ Cardinality(same) = 1
              /\ \A q \in same : q.Data = last.v.Data
              /\ pSecrets \ same = last.before \ {last.p}
              /\ last.before = {last.p} => Cardinality(pSecrets) = 1

\* TestSync's "Update used secret": the only physical secret, with no data,
\* has received the data of its virtual secret.
ForwardUpdateWitness ==
    /\ last.op = "ForwardUpdate"
    /\ DataDrift
    /\ last.p.Data = NilMap
    /\ last.before = {last.p}
    /\ \E q \in pSecrets : q.Data = MakeMap([k \in {"test"} |-> StrTest])

(***************************************************************************)
(* Metadata translation: SetupMetadata and ResetObjectMetadata applied to  *)
(* objects that carry server-set metadata, labels, annotations and owner   *)
(* references, with and without an owning stateful set.                    *)
(***************************************************************************)
UsedMeta ==
    [EmptyMeta EXCEPT
        !.GenerateName = StrA, !.SelfLink = Slash \o StrA, !.UID = StrB,
        !.ResourceVersion = StrC, !.Generation = 2, !.CreationTimestamp = 1,
        !.DeletionTimestamp = Ptr(1), !.DeletionGracePeriodSeconds = Ptr(30),
        !.OwnerReferences =
            <<[APIVersion |-> "v1", Kind |-> "Pod", Name |-> StrC, UID |-> StrC]>>,
        !.Finalizers = <<StrA>>, !.ClusterName = StrC, !.ManagedFields = <<StrA>>]

MetaNames == {StrA, Repeat("a", PadLen) \o StrX}

MetaObjects ==
    {NoObject} \cup
    {ObjectOf([base EXCEPT !.Name = n, !.Namespace = StrTest,
                           !.Labels = l, !.Annotations = a]) :
        base \in {EmptyMeta, UsedMeta}, n \in MetaNames,
        l \in LabelMaps, a \in AnnotationMaps}

StatefulSets == {Nil, Ptr([Name |-> StrC, UID |-> StrB])}
TargetNamespaces == {StrHost, StrTest}

InitSetup ==
    /\ Suffix \in Suffixes
    /\ observed = {}
    /\ pod = EmptyPod
    /\ ingress = EmptyIngress
    /\ ret = NoCall
    /\ ProxyIdle
    /\ InstallerIdle
    /\ OwningStatefulSet \in StatefulSets
    /\ obj \in MetaObjects
    /\ SyncerIdle

\* SetupMetadata(targetNamespace, obj): obj itself is not written.
CallSetupMetadata(targetNamespace) ==
    /\ LET r == SetupMetadata(targetNamespace, obj)
       IN  ret' = [op |-> "SetupMetadata", target |-> targetNamespace,
                   err |-> r.err, out |-> r.obj]
    /\ UNCHANGED <<proxyVars, cliVars, cfgVars, observed, pod, ingress, obj, syncVars>>

\* ResetObjectMetadata(obj) writes obj in place; ret keeps the metadata before
\* the first application and after it.
CallResetObjectMetadata ==
    /\ obj.hasMeta
    /\ LET n == IF ret.op = "ResetObjectMetadata" THEN ret.n ELSE 0
           m == ResetObjectMetadata(obj.meta)
       IN  /\ n < MaxResets
           /\ obj' = ObjectOf(m)
           /\ ret' = [op |-> "ResetObjectMetadata", n |-> n + 1,
                      in |-> IF n = 0 THEN obj.meta ELSE ret.in,
                      once |-> IF n = 0 THEN m ELSE ret.once]
    /\ UNCHANGED <<proxyVars, cliVars, cfgVars, observed, pod, ingress, syncVars>>

NextSetup ==
    \/ \E targetNamespace \in TargetNamespaces : CallSetupMetadata(targetNamespace)
    \/ CallResetObjectMetadata

SpecSetup == InitSetup /\ [][NextSetup]_vars

\* The fields ResetObjectMetadata clears hold their zero values.
Cleared(m) ==
    /\ m.GenerateName = <<>> /\ m.SelfLink = <<>> /\ m.UID = <<>>
    /\ m.ResourceVersion = <<>> /\ m.Generation = 0 /\ m.CreationTimestamp = 0
    /\ m.DeletionTimestamp = Nil /\ m.DeletionGracePeriodSeconds = Nil
    /\ m.Finalizers = <<>> /\ m.ClusterName = <<>> /\ m.ManagedFields = <<>>

(***************************************************************************)
(* C11: for every virtual object V and target namespace, SetupMetadata     *)
(* returns an object named PhysicalName(V.name, V.namespace) in the target *)
(* namespace, whose labels are exactly {marker: suffix}, whose server-set  *)
(* metadata, finalizers and inbound owner references are cleared, whose    *)
(* annotations are V's, whose owner references are the one StatefulSet     *)
(* reference when an owning stateful set is configured and none otherwise, *)
(* and which satisfies IsManaged.                                          *)
(***************************************************************************)
SetupMetadataContract ==
    (ret.op = "SetupMetadata" /\ obj.hasMeta) =>
        LET m == ret.out.meta
            v == obj.meta
        IN  /\ ~ret.err
            /\ m.Name = PhysicalName(v.Name, v.Namespace)
            /\ m.Namespace = ret.target
            /\ ~m.Labels.nil
            /\ DOMAIN m.Labels.kv = {MarkerLabel}
            /\ m.Labels.kv[MarkerLabel] = Suffix
            /\ Cleared(m)
            /\ m.Annotations = v.Annotations
            /\ IF OwningStatefulSet = Nil
               THEN m.OwnerReferences = <<>>
               ELSE /\ Len(m.OwnerReferences) = 1
                    /\ m.OwnerReferences[1].Kind = "StatefulSet"
                    /\ m.OwnerReferences[1].Name = Deref(OwningStatefulSet).Name
                    /\ m.OwnerReferences[1].UID = Deref(OwningStatefulSet).UID
            /\ IsManaged(ret.out)

\* SetupMetadata has translated an object that carried labels, annotations,
\* server-set metadata and an owner reference, with an owning stateful set.
SetupMetadataWitness ==
    /\ ret.op = "SetupMetadata"
    /\ obj.hasMeta
    /\ ~ret.err
    /\ OwningStatefulSet # Nil
    /\ "app" \in DOMAIN obj.meta.Labels.kv
    /\ ~obj.meta.Annotations.nil
    /\ obj.meta.OwnerReferences # <<>>
    /\ obj.meta.UID # <<>>
    /\ ret.out.meta.Namespace = StrHost

(***************************************************************************)
(* C12: ResetObjectMetadata is idempotent: applying it twice gives the     *)
(* metadata that applying it once gives, and name, namespace and           *)
(* annotations are left as they were.                                      *)
(***************************************************************************)
ResetIdempotent ==
    ret.op = "ResetObjectMetadata" =>
        /\ obj.meta.Name = ret.in.Name
        /\ obj.meta.Namespace = ret.in.Namespace
        /\ obj.meta.Annotations = ret.in.Annotations
        /\ ret.n >= 2 => obj.meta = ret.once

\* ResetObjectMetadata has been applied twice to metadata that the first
\* application changed.
ResetIdempotentWitness ==
    /\ ret.op = "ResetObjectMetadata"
    /\ ret.n = 2
    /\ ret.in # ret.once
    /\ ~ret.in.Annotations.nil
    /\ ~ret.in.Labels.nil

(***************************************************************************)
(* Label comparison: EqualExcept applied to pairs of string maps, nil      *)
(* maps and empty values included, with and without an excepted key.       *)
(***************************************************************************)
CompareValues == {<<>>, StrX}
CompareMaps ==
    {NilMap} \cup
    {MakeMap(kv) : kv \in UNION {[K -> CompareValues] : K \in SUBSET LabelKeys}}
ExceptLists == {<<>>, <<MarkerLabel>>, <<"app">>}

InitEqual ==
    /\ Suffix = StrSuffix
    /\ observed = {}
    /\ pod = EmptyPod
    /\ ingress = EmptyIngress
    /\ ret = NoCall
    /\ ProxyIdle
    /\ InstallerIdle
    /\ OwningStatefulSet = Nil
    /\ obj = NoObject
    /\ SyncerIdle

\* EqualExcept(a, b, except...) and the same call with a and b exchanged.
CallEqualExcept(a, b, except) ==
    /\ ret' = [op |-> "EqualExcept", a |-> a, b |-> b, except |-> except,
               out |-> EqualExcept(a, b, except),
               back |-> EqualExcept(b, a, except)]
    /\ UNCHANGED <<proxyVars, cliVars, cfgVars, observed, pod, ingress, obj, syncVars>>

NextEqual ==
    \E a \in CompareMaps, b \in CompareMaps, except \in ExceptLists :
        CallEqualExcept(a, b, except)

SpecEqual == InitEqual /\ [][NextEqual]_vars

\* a and b are equal as maps once the excepted keys are removed; a key
\* mapped to the empty string is present.
SameExcept(a, b, except) ==
    \A k \in (DOMAIN a.kv \cup DOMAIN b.kv) \ Elems(except) :
        /\ k \in DOMAIN a.kv <=> k \in DOMAIN b.kv
        /\ (k \in DOMAIN a.kv /\ k \in DOMAIN b.kv) => a.kv[k] = b.kv[k]

(***************************************************************************)
(* C17: for all string maps a and b (either may be nil) and every list of  *)
(* excepted keys, EqualExcept(a, b, except) is true if and only if a and b *)
(* are equal as maps once the excepted keys are removed, a key mapped to   *)
(* the empty string counting as present; and EqualExcept is symmetric in   *)
(* a and b.                                                                *)
(***************************************************************************)
EqualExceptIffEqual ==
    ret.op = "EqualExcept" =>
        /\ ret.out <=> SameExcept(ret.a, ret.b, ret.except)
        /\ ret.out = ret.back

(***************************************************************************)
(* package server: the API proxy.  NewServer fixes the redirect resources  *)
(* and builds the handler chain; ServeOnListenerTLS fixes what the         *)
(* delegating authorizer decides on.  The filters, the impersonating       *)
(* handler and the authorizers are other packages, whose code is not part  *)
(* of the sources at hand: what each of them handles is modelled from the  *)
(* specification (section 4.5).                                            *)
(***************************************************************************)
GVRV(resource, verb, subresource) ==
    [Group |-> "", Version |-> "v1", Resource |-> resource,
     Verb |-> verb, SubResource |-> subresource]

\* NewServer's list with the entry services/proxy left out.
redirectResourcesShort ==
    <<GVRV("nodes", "*", "proxy"),
      GVRV("pods", "*", "portforward"),
      GVRV("pods", "*", "exec"),
      GVRV("pods", "*", "attach"),
      GVRV("pods", "*", "log"),
      GVRV("pods", "*", "proxy")>>

redirectResources ==
    <<GVRV("nodes", "*", "proxy"),
      GVRV("pods", "*", "portforward"),
      GVRV("pods", "*", "exec"),
      GVRV("pods", "*", "attach"),
      GVRV("pods", "*", "log"),
      GVRV("pods", "*", "proxy"),
      GVRV("services", "*", "proxy")>>

redirectAuthResources == <<GVRV("services", "create", "")>> \o redirectResources

PathVerbs ==
    <<[Path |-> "/metrics/cadvisor", Verb |-> "*"],
      [Path |-> "/metrics/probes", Verb |-> "*"],
      [Path |-> "/metrics/resource", Verb |-> "*"],
      [Path |-> "/metrics/resource/v1alpha1", Verb |-> "*"]>>

\* The chain as NewServer builds it, innermost handler first, with
\* WithRedirect wrapped around WithMetricsRewrite.
WrappedRedirectLate ==
    <<"ImpersonatingHandler", "WithServiceCreateRedirect", "WithMetricsRewrite",
      "WithRedirect", "WithInjectedMetrics">>

\* The chain as NewServer builds it, innermost handler first: each filter is
\* wrapped around the handler built so far.
Wrapped ==
    <<"ImpersonatingHandler", "WithServiceCreateRedirect", "WithRedirect",
      "WithMetricsRewrite", "WithInjectedMetrics">>

\* The handler a request meets first is the one wrapped last.
First == Wrapped[Len(Wrapped)]

\* The handler a filter forwards to is the one it was wrapped around.
NextHandler(f) ==
    LET i == CHOOSE j \in 1..Len(Wrapped) : Wrapped[j] = f
    IN  IF i = 1 THEN "done" ELSE Wrapped[i - 1]

\* A request as the request info resolver describes it: a resource request
\* (verb, resource, subresource, and what follows the subresource in the
\* path) or a non-resource request (verb and path).
ResourceRequests ==
    {[verb |-> v, resource |-> r, subresource |-> sub, path |-> rest] :
        v \in {"get", "create"},
        r \in {"nodes", "pods", "services", "secrets"},
        sub \in {"", "proxy", "portforward", "exec", "attach", "log", "status"},
        rest \in {"", "metrics"}}

PathRequests ==
    {[verb |-> v, resource |-> "", subresource |-> "", path |-> path] :
        v \in {"get", "create"},
        path \in {"/metrics", "/healthz", "/metrics/cadvisor"}}

Requests ==
    {r \in ResourceRequests : r.path = "" \/ r.subresource = "proxy"}
        \cup PathRequests

\* An entry matches a request by resource, subresource and verb.
MatchesResource(entry, r) ==
    /\ r.resource # ""
    /\ entry.Resource = r.resource
    /\ entry.SubResource = r.subresource
    /\ entry.Verb \in {"*", r.verb}

MatchesPath(entry, r) ==
    /\ r.resource = ""
    /\ entry.Path = r.path
    /\ entry.Verb \in {"*", r.verb}

IsRedirect(r) ==
    \E i \in 1..Len(redirectResources) : MatchesResource(redirectResources[i], r)

\* The delegating authorizer decides on the requests its lists name.
Delegates(r) ==
    \/ \E i \in 1..Len(redirectAuthResources) :
            MatchesResource(redirectAuthResources[i], r)
    \/ \E i \in 1..Len(PathVerbs) : MatchesPath(PathVerbs[i], r)

\* What each element of the chain handles itself.
Handles(f, r) ==
    CASE f = "WithInjectedMetrics" ->
            r.resource = "" /\ r.verb = "get" /\ r.path = "/metrics"
      [] f = "WithMetricsRewrite" ->
            /\ r.verb = "get" /\ r.resource = "nodes"
            /\ r.subresource = "proxy" /\ r.path = "metrics"
      [] f = "WithRedirect" -> IsRedirect(r)
      [] f = "WithServiceCreateRedirect" ->
            r.verb = "create" /\ r.resource = "services" /\ r.subresource = ""
      [] OTHER -> TRUE

InitProxy ==
    /\ Suffix = StrSuffix
    /\ observed = {}
    /\ pod = EmptyPod
    /\ ingress = EmptyIngress
    /\ ret = NoCall
    /\ ProxyIdle
    /\ InstallerIdle
    /\ OwningStatefulSet = Nil
    /\ obj = NoObject
    /\ SyncerIdle

ChainFrame ==
    UNCHANGED <<cliVars, cfgVars, serviceVars, observed, pod, ingress, ret, obj,
                syncVars>>

\* A request arrives once the one before it has been served.
Receive(r) ==
    /\ stage \in {"idle", "done", "denied"}
    /\ request' = r
    /\ stage' = "authorize"
    /\ authorizer' = "none"
    /\ offered' = <<>>
    /\ handledBy' = <<>>
    /\ ChainFrame

\* The union authorizer: the delegating authorizer decides on the requests it
\* names (the virtual API server allows or denies), every other request is
\* allowed.
Authorize(allowed) ==
    /\ stage = "authorize"
    /\ authorizer' = IF Delegates(request) THEN "delegating" ELSE "allowall"
    /\ stage' = IF Delegates(request) /\ ~allowed THEN "denied" ELSE First
    /\ UNCHANGED <<request, offered, handledBy>>
    /\ ChainFrame

\* An element of the chain is offered the request: it handles it or forwards
\* it to the handler it wraps.
Offer(f) ==
    /\ stage = f
    /\ offered' = Append(offered, f)
    /\ IF Handles(f, request)
       THEN /\ handledBy' = Append(handledBy, f)
            /\ stage' = "done"
       ELSE /\ handledBy' = handledBy
            /\ stage' = NextHandler(f)
    /\ UNCHANGED <<request, authorizer>>
    /\ ChainFrame

WithInjectedMetrics == Offer("WithInjectedMetrics")
WithMetricsRewrite == Offer("WithMetricsRewrite")
WithRedirect == Offer("WithRedirect")
WithServiceCreateRedirect == Offer("WithServiceCreateRedirect")
ImpersonatingHandler == Offer("ImpersonatingHandler")

NextProxy ==
    \/ \E r \in Requests : Receive(r)
    \/ \E allowed \in BOOLEAN : Authorize(allowed)
    \/ WithInjectedMetrics
    \/ WithMetricsRewrite
    \/ WithRedirect
    \/ WithServiceCreateRedirect
    \/ ImpersonatingHandler

SpecProxy == InitProxy /\ [][NextProxy]_vars

\* The request being served names one of the listed resources with one of
\* the listed subresources.
InCrossProduct(r) ==
    /\ r.resource \in {"nodes", "pods", "services"}
    /\ r.subresource \in {"proxy", "portforward", "exec", "attach", "log"}

InSevenPairs(r) ==
    \/ r.resource = "nodes" /\ r.subresource = "proxy"
    \/ r.resource = "pods"
        /\ r.subresource \in {"proxy", "portforward", "exec", "attach", "log"}
    \/ r.resource = "services" /\ r.subresource = "proxy"

\* The request is a metrics request to a node, which the metrics rewrite
\* filter takes before the redirect filter sees it.
IsNodeMetrics(r) ==
    /\ r.verb = "get" /\ r.resource = "nodes"
    /\ r.subresource = "proxy" /\ r.path = "metrics"

(***************************************************************************)
(* C13 as stated: every request whose resource is one of nodes, pods,      *)
(* services and whose subresource is one of proxy, portforward, exec,      *)
(* attach, log (any verb) is in redirectResources, is served by the        *)
(* redirect filter, and is authorized through the delegating authorizer.   *)
(***************************************************************************)
CrossProductRedirected ==
    InCrossProduct(request) =>
        /\ IsRedirect(request)
        /\ authorizer \in {"none", "delegating"}
        /\ stage = "done" => handledBy = <<"WithRedirect">>

(***************************************************************************)
(* C13 amended: the redirect resources are exactly the seven pairs         *)
(* nodes/proxy, pods/{proxy, portforward, exec, attach, log} and           *)
(* services/proxy, for any verb.  A request for one of them is authorized  *)
(* through the delegating authorizer and is served by the redirect filter, *)
(* unless it is a node metrics request, which the metrics rewrite filter   *)
(* serves; no other request is served by the redirect filter.              *)
(***************************************************************************)
SevenPairsRedirected ==
    /\ request # NoRequest => (IsRedirect(request) <=> InSevenPairs(request))
    /\ InSevenPairs(request) =>
        /\ authorizer \in {"none", "delegating"}
        /\ stage = "done" =>
              handledBy = IF IsNodeMetrics(request)
                          THEN <<"WithMetricsRewrite">>
                          ELSE <<"WithRedirect">>
    /\ (request # NoRequest /\ ~InSevenPairs(request)) =>
          "WithRedirect" \notin Elems(handledBy)

\* A services/proxy request has been authorized by the delegating authorizer
\* and served by the redirect filter.
SevenPairsWitness ==
    /\ request.resource = "services"
    /\ request.subresource = "proxy"
    /\ authorizer = "delegating"
    /\ stage = "done"
    /\ handledBy = <<"WithRedirect">>

(***************************************************************************)
(* C18: every request served by the proxy is offered to the filters in the *)
(* order metrics injection, metrics rewrite, redirect, service-create      *)
(* redirect; each filter handles it or forwards it to the next; it reaches *)
(* the impersonating handler if and only if none of the four filters       *)
(* handled it; and it is handled by exactly one element of the chain.      *)
(***************************************************************************)
FilterOrder ==
    <<"WithInjectedMetrics", "WithMetricsRewrite", "WithRedirect",
      "WithServiceCreateRedirect", "ImpersonatingHandler">>

LockName == "service-controller"
ServiceNames == {StrA, StrB}
HostIPs == {"10.96.1.23", "10.96.1.24"}

InitService ==
    /\ Suffix = StrSuffix
    /\ observed = {}
    /\ pod = EmptyPod
    /\ ingress = EmptyIngress
    /\ ret = NoCall
    /\ ProxyIdle
    /\ InstallerIdle
    /\ OwningStatefulSet = Nil
    /\ obj = NoObject
    /\ SyncerIdle

ServiceFrame ==
    UNCHANGED <<cliVars, cfgVars, chainVars, observed, pod, ingress, ret, obj,
                syncVars>>

\* The state of request i with some fields replaced.
Progress(i, pc, failedAt, clusterIP) ==
    [creates EXCEPT ![i] = [@ EXCEPT !.pc = pc, !.failedAt = failedAt,
                                     !.clusterIP = clusterIP]]

\* A tenant sends POST /api/v1/namespaces/test/services for a service name.
Post(name) ==
    /\ Len(creates) < MaxCreates
    /\ creates' = Append(creates, [name |-> name, namespace |-> StrTest,
                                   pc |-> "received", failedAt |-> "",
                                   clusterIP |-> ""])
    /\ UNCHANGED <<lock, physicalServices, virtualServices>>
    /\ ServiceFrame

\* Step 1: the lock is non-reentrant and held by one request at a time.
AcquireLock(i) ==
    /\ creates[i].pc = "received"
    /\ lock = Nil
    /\ lock' = Ptr([name |-> LockName, holder |-> i])
    /\ creates' = Progress(i, "locked", "", "")
    /\ UNCHANGED <<physicalServices, virtualServices>>
    /\ ServiceFrame

\* Step 2: the dry-run probe of the host's service CIDR; it creates nothing.
ProbeServiceCIDR(i, ok) ==
    /\ creates[i].pc = "locked"
    /\ creates' = IF ok THEN Progress(i, "probed", "", "")
                  ELSE Progress(i, "failed", "probe", "")
    /\ UNCHANGED <<lock, physicalServices, virtualServices>>
    /\ ServiceFrame

\* Step 3, first half: the physical service is created and the host
\* allocates its clusterIP; the create fails if the name is taken.
CreatePhysicalService(i, ok, ip) ==
    /\ creates[i].pc = "probed"
    /\ LET pName == PhysicalName(creates[i].name, creates[i].namespace)
           taken == \E p \in physicalServices : p.name = pName
       IN  IF ok /\ ~taken
           THEN /\ physicalServices' = physicalServices \cup
                      {[name |-> pName, namespace |-> TargetNamespace,
                        clusterIP |-> ip, by |-> i]}
                /\ creates' = Progress(i, "physical", "", ip)
           ELSE /\ physicalServices' = physicalServices
                /\ creates' = Progress(i, "failed", "physical", "")
    /\ UNCHANGED <<lock, virtualServices>>
    /\ ServiceFrame

\* What is left of the physical services when request i gives up after its
\* physical create, keeping the service it created.
RollBackNothing(i) == physicalServices

\* What is left of the physical services when request i gives up after its
\* physical create: the service it created is deleted.
RollBack(i) == {p \in physicalServices : p.by # i}

\* Step 3, second half: the request, carrying the host-allocated clusterIP,
\* is forwarded to the virtual API server; if that fails the physical
\* service is taken back.
ForwardToVirtual(i, ok) ==
    /\ creates[i].pc = "physical"
    /\ LET taken == \E v \in virtualServices :
                        v.name = creates[i].name /\ v.namespace = creates[i].namespace
       IN  IF ok /\ ~taken
           THEN /\ virtualServices' = virtualServices \cup
                      {[name |-> creates[i].name, namespace |-> creates[i].namespace,
                        clusterIP |-> creates[i].clusterIP, by |-> i]}
                /\ physicalServices' = physicalServices
                /\ creates' = Progress(i, "created", "", creates[i].clusterIP)
           ELSE /\ virtualServices' = virtualServices
                /\ physicalServices' = RollBack(i)
                /\ creates' = Progress(i, "failed", "virtual", "")
    /\ UNCHANGED lock
    /\ ServiceFrame

\* Step 4: the lock is released and the response is sent.
ReleaseLock(i) ==
    /\ creates[i].pc \in {"created", "failed"}
    /\ lock = Ptr([name |-> LockName, holder |-> i])
    /\ lock' = Nil
    /\ creates' = [creates EXCEPT ![i] =
                      [@ EXCEPT !.pc = IF @ = "created" THEN "ok" ELSE "error"]]
    /\ UNCHANGED <<physicalServices, virtualServices>>
    /\ ServiceFrame

NextService ==
    \/ \E name \in ServiceNames : Post(name)
    \/ \E i \in DOMAIN creates : AcquireLock(i)
    \/ \E i \in DOMAIN creates, ok \in BOOLEAN : ProbeServiceCIDR(i, ok)
    \/ \E i \in DOMAIN creates, ok \in BOOLEAN, ip \in HostIPs :
            CreatePhysicalService(i, ok, ip)
    \/ \E i \in DOMAIN creates, ok \in BOOLEAN : ForwardToVirtual(i, ok)
    \/ \E i \in DOMAIN creates : ReleaseLock(i)

SpecService == InitService /\ [][NextService]_vars

\* The objects request i left in either cluster.
PhysicalBy(i) == {p \in physicalServices : p.by = i}
VirtualBy(i) == {v \in virtualServices : v.by = i}

errorMessageFind ==
    <<"p", "r", "o", "v", "i", "d", "e", "d", " ", "I", "P", " ", "i", "s",
      " ", "n", "o", "t", " ", "i", "n", " ", "t", "h", "e", " ", "v", "a",
      "l", "i", "d", " ", "r", "a", "n", "g", "e", ".", " ", "T", "h", "e",
      " ", "r", "a", "n", "g", "e", " ", "o", "f", " ", "v", "a", "l", "i",
      "d", " ", "I", "P", "s", " ", "i", "s", " ">>

FallbackCIDR ==
    <<"1", "0", ".", "9", "6", ".", "0", ".", "0", "/", "1", "2">>

ProbeClusterIP == "4.4.4.4"
TestServicePrefix == "test-service-"
InstallNamespace == StrTest

\* strings.Index: the 0-based index of the first occurrence, or -1.
Index(str, substr) ==
    LET at == {i \in 0..(Len(str) - Len(substr)) :
                  SubSeq(str, i + 1, i + Len(substr)) = substr}
    IN  IF at = {} THEN -1 ELSE CHOOSE i \in at : \A j \in at : i <= j

WhiteSpace == {" ", "\n", "\t"}

\* strings.TrimSpace
TrimSpace(str) ==
    LET black == {i \in 1..Len(str) : str[i] \notin WhiteSpace}
    IN  IF black = {} THEN <<>>
        ELSE LET lo == CHOOSE i \in black : \A j \in black : i <= j
                 hi == CHOOSE i \in black : \A j \in black : i >= j
             IN  SubSeq(str, lo, hi)

\* The answer of the host to the probe: the service was created, or an error
\* with a message.
Created == [err |-> FALSE, message |-> <<>>]
Failed(message) == [err |-> TRUE, message |-> message]

\* The CIDR selection with the message kept whole from the marker's end,
\* white space included.
ServiceCIDRUntrimmed(probe) ==
    IF ~probe.err THEN FallbackCIDR
    ELSE LET errorMessage == probe.message
             idx == Index(errorMessage, errorMessageFind)
         IN  IF idx = -1 THEN FallbackCIDR
             ELSE SubSeq(errorMessage, idx + Len(errorMessageFind) + 1,
                         Len(errorMessage))

\* getReleaseValues, the CIDR selection after the probe returned.
ServiceCIDR(probe) ==
    IF ~probe.err THEN FallbackCIDR
    ELSE LET errorMessage == probe.message
             idx == Index(errorMessage, errorMessageFind)
         IN  IF idx = -1 THEN FallbackCIDR
             ELSE TrimSpace(SubSeq(errorMessage, idx + Len(errorMessageFind) + 1,
                                   Len(errorMessage)))

\* The image key getReleaseValues settles on for a host minor version.
ServerVersionMinor(minor) ==
    IF minor \in 16..20 THEN minor
    ELSE IF minor > 20 THEN 20 ELSE 16

\* getReleaseValues: an early error before the probe, or the values built
\* from the probe's answer.  version.err is "ServerVersion" (the discovery
\* call failed), "Atoi" (the minor version has no digits) or "".
getReleaseValues(version, probe) ==
    IF version.err # ""
    THEN [err |-> TRUE, probed |-> FALSE, cidr |-> <<>>, minor |-> 0]
    ELSE [err |-> FALSE, probed |-> TRUE, cidr |-> ServiceCIDR(probe),
          minor |-> ServerVersionMinor(version.minor)]

OtherCIDR == <<"1", "0", ".", "0", ".", "0", ".", "0", "/", "1", "6">>

\* The error messages the host may answer the probe with.
ProbeMessages ==
    {<<"e", ":", " ">> \o errorMessageFind \o OtherCIDR,
     errorMessageFind \o <<" ">> \o OtherCIDR \o <<"\n">>,
     errorMessageFind,
     <<"f", "o", "r", "b", "i", "d", "d", "e", "n">>,
     SubSeq(errorMessageFind, 1, Len(errorMessageFind) - 1)}

ProbeAnswers == {Created} \cup {Failed(message) : message \in ProbeMessages}
Versions ==
    {[err |-> e, minor |-> 0] : e \in {"ServerVersion", "Atoi"}}
        \cup {[err |-> "", minor |-> m] : m \in {15, 19, 21}}

InitInstall ==
    /\ Suffix = StrSuffix
    /\ observed = {}
    /\ pod = EmptyPod
    /\ ingress = EmptyIngress
    /\ ret = NoCall
    /\ OwningStatefulSet = Nil
    /\ obj = NoObject
    /\ SyncerIdle
    /\ ProxyIdle
    /\ cmd \in [CreateNamespace : BOOLEAN, ReleaseValues : {<<>>, StrA}]
    /\ hostNamespaces \in {{}, {InstallNamespace}}
    /\ hostServices = {}
    /\ run = NoCall

\* What Namespaces().Get may answer given the host's namespaces.
GetAnswers ==
    {IF InstallNamespace \in hostNamespaces THEN "found" ELSE "notFound",
     "forbidden", "error"}

\* CreateCmd.Run.  local: helm and the kube config are usable; get, create,
\* version, probe, readFile, upgrade: the answers of the host cluster, the
\* file system and helm, where the run asks for them.
Run(local, get, create, version, probe, readFile, upgrade) ==
    LET n == IF run.op = "Run" THEN run.n + 1 ELSE 1
        pastLocal == local
        createIssued == pastLocal /\ get = "notFound"
        created == createIssued /\ create
        pastNamespace ==
            /\ pastLocal
            /\ \/ get = "found"
               \/ get = "forbidden"
               \/ created
        useProbe == pastNamespace /\ cmd.ReleaseValues = <<>>
        values == getReleaseValues(version, probe)
        probed == useProbe /\ values.probed
        leaked == probed /\ ~probe.err
        pastValues ==
            /\ pastNamespace
            /\ IF cmd.ReleaseValues = <<>> THEN ~values.err ELSE readFile
        done == pastValues /\ upgrade
    IN  /\ n <= MaxRuns
        /\ get \in GetAnswers
        \* the host creates the probe service only in a namespace it has
        /\ (probed /\ ~probe.err) =>
              InstallNamespace \in (hostNamespaces \cup
                                      IF created THEN {InstallNamespace} ELSE {})
        /\ hostNamespaces' =
              IF created THEN hostNamespaces \cup {InstallNamespace}
              ELSE hostNamespaces
        /\ hostServices' =
              IF leaked
              THEN hostServices \cup
                      {[namespace |-> InstallNamespace,
                        generateName |-> TestServicePrefix,
                        clusterIP |-> ProbeClusterIP, by |-> n]}
              ELSE hostServices
        /\ run' = [op |-> "Run", n |-> n, get |-> IF pastLocal THEN get ELSE "",
                   createIssued |-> createIssued, probed |-> probed,
                   probe |-> IF probed THEN probe ELSE Created,
                   cidr |-> IF probed THEN values.cidr ELSE <<>>,
                   err |-> ~done]
        /\ UNCHANGED cmd
        /\ UNCHANGED <<proxyVars, cfgVars, observed, pod, ingress, ret, obj,
                       syncVars>>

NextInstall ==
    \E local \in BOOLEAN, get \in {"found", "notFound", "forbidden", "error"},
       create \in BOOLEAN, version \in Versions, probe \in ProbeAnswers,
       readFile \in BOOLEAN, upgrade \in BOOLEAN :
        Run(local, get, create, version, probe, readFile, upgrade)

SpecInstall == InitInstall /\ [][NextInstall]_vars

(***************************************************************************)
(* C15: the installer creates the host namespace only when asked to: when  *)
(* the target namespace does not exist (Get returns NotFound), a namespace *)
(* Create call is issued if and only if the create-namespace flag is true; *)
(* with create-namespace=false no namespace is ever created.               *)
(***************************************************************************)
NamespaceCreatedOnlyWhenAsked ==
    run.op = "Run" =>
        /\ run.get = "notFound" => (run.createIssued <=> cmd.CreateNamespace)
        /\ ~cmd.CreateNamespace => ~run.createIssued

\* The marker occurs in a message, and what follows its first occurrence.
HasMarker(message) ==
    \E i \in 1..(Len(message) - Len(errorMessageFind) + 1) :
        SubSeq(message, i, i + Len(errorMessageFind) - 1) = errorMessageFind

AfterMarker(message) ==
    LET starts == {k \in 1..(Len(message) - Len(errorMessageFind) + 1) :
                      SubSeq(message, k, k + Len(errorMessageFind) - 1)
                          = errorMessageFind}
        i == CHOOSE k \in starts : \A j \in starts : k <= j
    IN  SubSeq(message, i + Len(errorMessageFind), Len(message))

\* A string starts and ends with a character that is not white space.
Trimmed(str) ==
    str = <<>> \/ (str[1] \notin WhiteSpace /\ str[Len(str)] \notin WhiteSpace)

\* t is str without its leading and trailing white space.
IsTrimOf(t, str) ==
    /\ Trimmed(t)
    /\ \E lead, trail \in 0..Len(str) :
          /\ lead + Len(t) + trail = Len(str)
          /\ SubSeq(str, lead + 1, lead + Len(t)) = t
          /\ \A i \in 1..lead : str[i] \in WhiteSpace
          /\ \A i \in (Len(str) - trail + 1)..Len(str) : str[i] \in WhiteSpace

(***************************************************************************)
(* C16: in getReleaseValues the probe (creating a service with clusterIP   *)
(* 4.4.4.4) selects the CIDR: when the create returns an error whose       *)
(* message contains the marker, the CIDR is the trimmed text after the     *)
(* marker; when it returns any other error, or no error at all, the CIDR   *)
(* is 10.96.0.0/12.  When the create returns no error, the test service it *)
(* created is never deleted and remains in the host namespace.             *)
(***************************************************************************)
ProbeSelectsCIDR ==
    /\ (run.op = "Run" /\ run.probed) =>
          /\ (run.probe.err /\ HasMarker(run.probe.message)) =>
                IsTrimOf(run.cidr, AfterMarker(run.probe.message))
          /\ (run.probe.err /\ ~HasMarker(run.probe.message)) =>
                run.cidr = FallbackCIDR
          /\ ~run.probe.err =>
                /\ run.cidr = FallbackCIDR
                /\ \E svc \in hostServices :
                      /\ svc.by = run.n
                      /\ svc.namespace = InstallNamespace
                      /\ svc.clusterIP = ProbeClusterIP
    /\ run.op = "Run" =>
          \A k \in 1..run.n :
              Cardinality({svc \in hostServices : svc.by = k}) <= 1

\* A first run's probe created its test service, which is still there after
\* a second run read the CIDR off an error message with white space around
\* it.
ProbeSelectsCIDRWitness ==
    /\ run.op = "Run"
    /\ run.n = 2
    /\ run.probed
    /\ run.probe.err
    /\ HasMarker(run.probe.message)
    /\ run.cidr # AfterMarker(run.probe.message)
    /\ \E svc \in hostServices : svc.by = 1

=============================================================================
